---------------------------- MODULE Spec2Model ----------------------------
(***************************************************************************)
(* A model of NumBAT's backend/integration.py:                             *)
(*   gain_and_qs  - re-indexes the EM fields onto the AC mesh, masks the   *)
(*                  permittivities, calls the three Fortran overlap        *)
(*                  kernels and assembles the SBS gain tensors;            *)
(*   symmetries   - scores every mode's interpolated field grid under the  *)
(*                  two mirrors and the rotation by pi.                    *)
(*                                                                         *)
(* Numbers.  Complex numbers are pairs <<re, im>> of integers.  Real       *)
(* quotients are exact fractions [n, d] in lowest terms with d > 0; a      *)
(* division by zero gives numpy's inf ([1,0]), -inf ([-1,0]) or nan        *)
(* ([0,0]).  Floating-point rounding is not modelled.                      *)
(***************************************************************************)
EXTENDS Integers, Sequences, FiniteSets, TLC

VARIABLES
    pc,                         \* position of the gain_and_qs call
    inp,                        \* the arguments and the three Simmo objects
    EM_ival_pump_fortran, EM_ival_Stokes_fortran, AC_ival_fortran,
    trimmed_EM_pump_field, trimmed_EM_Stokes_field,
    relevant_eps_effs,
    alpha, Q_factors, Q_PE, Q_MB,
    typ_select_in, typ_select_out,
    bound,                      \* the kernel outputs that are bound locals
    calls,                      \* the kernel invocations so far, in order
    interrupted,                \* kernel calls ended by KeyboardInterrupt
    result,                     \* the returned tuple
    err,                        \* the exception that ended the call
    spc,                        \* position of the symmetries call
    sinp,                       \* symmetries' arguments
    ival,                       \* symmetries' loop index over the modes
    m_interp,                   \* what the four interpolators returned
    m_Ex, m_Ey,                 \* the complex grids of mode ival
    scores,                     \* sigma_y, sigma_x, C_2 of mode ival
    sym_list

gvars == <<pc, inp, EM_ival_pump_fortran, EM_ival_Stokes_fortran,
           AC_ival_fortran, trimmed_EM_pump_field, trimmed_EM_Stokes_field,
           relevant_eps_effs, alpha, Q_factors, Q_PE, Q_MB, typ_select_in,
           typ_select_out, bound, calls, interrupted, result, err>>

svars == <<spc, sinp, ival, m_interp, m_Ex, m_Ey, scores, sym_list>>

vars == <<gvars, svars>>

---------------------------------------------------------------------------
(* Bounds of the model. *)

MaxModes == 3           \* every mode set has 1..MaxModes modes
MaxElAC == 2            \* the AC mesh has 1..MaxElAC elements
MaxElEM == 2            \* the EM mesh has 1..MaxElEM elements
MaxTyp == 3             \* the EM domain has 1..MaxTyp material types
MaxFieldSeed == 1       \* the EM solutions tried: seeds 0..MaxFieldSeed
MaxQSeed == 1           \* the AC solutions tried: seeds 0..MaxQSeed
MaxSymModes == 1        \* symmetries is given 1..MaxSymModes modes

(* Program constants. *)

ncomps == 3
nnodes == 6

\* Field values are counted in units of 1e-6.
MirrorThreshold == 100000       \* 0.1
RotationThreshold == 200000     \* 0.2
DefaultNegligible == 10         \* 1e-5

---------------------------------------------------------------------------
(* Arithmetic. *)

Abs(a) == IF a < 0 THEN -a ELSE a

RECURSIVE Gcd(_, _)
Gcd(a, b) == IF b = 0 THEN a ELSE Gcd(b, a % b)

Sgn(a) == IF a > 0 THEN 1 ELSE IF a < 0 THEN -1 ELSE 0

\* n/d as numpy computes it on floats: inf, -inf or nan when d is 0.
Frac(n, d) ==
    IF d = 0 THEN [n |-> Sgn(n), d |-> 0]
    ELSE LET g == Gcd(Abs(n), Abs(d))
         IN  [n |-> Sgn(d) * (n \div g), d |-> Abs(d) \div g]

RInt(a) == [n |-> a, d |-> 1]
RFinite(q) == q.d # 0
RMul(p, q) == Frac(p.n * q.n, p.d * q.d)
RDiv(p, q) == Frac(p.n * q.d, p.d * q.n)
RHalf(p) == IF RFinite(p) THEN Frac(p.n, 2 * p.d) ELSE p

CAdd(a, b) == <<a[1] + b[1], a[2] + b[2]>>
CMul(a, b) == <<a[1] * b[1] - a[2] * b[2], a[1] * b[2] + a[2] * b[1]>>
CConj(a) == <<a[1], -a[2]>>
CReal(a) == a[1]

---------------------------------------------------------------------------
(* The arguments.  A mode selector is 'All' or an integer; fixed_Q and     *)
(* typ_select_out are None or a number.                                    *)

All == [kind |-> "All", val |-> 0]
Int_(i) == [kind |-> "int", val |-> i]
None == [kind |-> "None", val |-> 0]
Val(v) == [kind |-> "val", val |-> v]

Range(n) == 0 .. (n - 1)

\* sol1[x,n,ival,el] of an EM solution: a different complex value at every
\* index, and a different field for every seed.
Sol1(seed, x, n, iv, el) ==
    <<((el * (MaxModes + 1) + iv) * nnodes + n) * ncomps + x, seed + 1>>

\* n_list: the refractive index of material type el_typ (0-based).
NList(seed, nb) == [t \in Range(nb) |-> <<seed + t + 1, t>>]

\* The mode powers of a solution with num modes.
PumpPower(num) == [j \in Range(num) |-> 2 + j]
StokesPower(num) == [i \in Range(num) |-> 5 + 2 * i]
ACPower(num) == [k \in Range(num) |-> 1 + 10 * k]

PowerVariants(v) ==
    {v} \cup {[v EXCEPT ![i] = 0] : i \in DOMAIN v}
        \cup {[v EXCEPT ![i] = -v[i]] : i \in DOMAIN v}

Base ==
    [EM_ival_pump |-> Int_(0), EM_ival_Stokes |-> Int_(0), AC_ival |-> Int_(0),
     fixed_Q |-> None, typ_select_out |-> None, k_AC |-> 6,
     num_modes_EM_pump |-> 2, num_modes_EM_Stokes |-> 1, num_modes_AC |-> 2,
     n_msh_el_AC |-> 1, n_msh_el_EM |-> 2,
     el_convert_tbl |-> [e \in Range(1) |-> 1],
     pump_seed |-> 0, Stokes_seed |-> 1,
     nb_typ_el |-> 2, n_list |-> NList(0, 2), typ_el_AC |-> <<2, 1>>,
     pump_power |-> PumpPower(2), Stokes_power |-> StokesPower(1),
     AC_mode_power |-> ACPower(2),
     omega_EM |-> 3, Omega_AC |-> 2, inc_shape |-> "linear",
     alpha_seed |-> 3, PE_seed |-> 0, MB_seed |-> 1]

Selectors == {All} \cup {Int_(i) : i \in (-2) .. MaxModes}

\* Every combination of the three mode selectors.
SelectorInputs ==
    {[Base EXCEPT !.EM_ival_pump = p, !.EM_ival_Stokes = s, !.AC_ival = a] :
        p \in Selectors, s \in Selectors, a \in Selectors}

\* Every element map, valid or not, for every pair of mesh sizes.
TblInputs ==
    UNION {UNION {
        {[Base EXCEPT !.n_msh_el_AC = nac, !.n_msh_el_EM = nem,
                      !.el_convert_tbl = tbl,
                      !.pump_seed = sd, !.Stokes_seed = sd + 1] :
            tbl \in [Range(nac) -> (-(nem + 1)) .. nem],
            sd \in 0 .. MaxFieldSeed} :
        nac \in 1 .. MaxElAC} : nem \in 1 .. MaxElEM}

\* The lists without repetition over a set: typ_el_AC in any order.
RECURSIVE Perms(_)
Perms(S) ==
    IF S = {} THEN {<<>>}
    ELSE UNION {{<<t>> \o p : p \in Perms(S \ {t})} : t \in S}

\* Every material list, every typ_el_AC and every outer selector.
MaskInputs ==
    UNION {UNION {
        {[Base EXCEPT !.nb_typ_el = nb, !.n_list = NList(sd, nb),
                      !.typ_el_AC = ta, !.typ_select_out = ts] :
            ta \in Perms(S), sd \in 0 .. 1,
            ts \in {None} \cup {Val(v) : v \in 1 .. MaxTyp}} :
        S \in SUBSET (1 .. nb)} : nb \in 1 .. MaxTyp}

\* The mode powers as solved, or with one entry zero or negative.
PowerInputs(m) ==
    {<<p, StokesPower(m[2]), ACPower(m[3])>> :
        p \in PowerVariants(PumpPower(m[1]))}
    \cup {<<PumpPower(m[1]), p, ACPower(m[3])>> :
        p \in PowerVariants(StokesPower(m[2]))}
    \cup {<<PumpPower(m[1]), StokesPower(m[2]), p>> :
        p \in PowerVariants(ACPower(m[3]))}

ModeCounts == (1 .. MaxModes) \X (1 .. MaxModes) \X (1 .. MaxModes)

WithModes(m, pw) ==
    [Base EXCEPT !.num_modes_EM_pump = m[1], !.num_modes_EM_Stokes = m[2],
                 !.num_modes_AC = m[3], !.pump_power = pw[1],
                 !.Stokes_power = pw[2], !.AC_mode_power = pw[3]]

\* Every mode count with mode powers that have a zero or a negative entry,
\* with the loss from the kernel or from a fixed Q.
PowerGainInputs ==
    UNION {{[WithModes(m, pw) EXCEPT !.fixed_Q = fq[1], !.k_AC = fq[2]] :
                pw \in PowerInputs(m),
                fq \in {<<None, 6>>, <<Val(500), 10000000>>}} :
           m \in ModeCounts}

StandardPowers(m) == <<PumpPower(m[1]), StokesPower(m[2]), ACPower(m[3])>>

\* Every mode count with every AC solution (what the three kernels return
\* for it), and with every fixed Q.
KernelGainInputs ==
    UNION {{[WithModes(m, StandardPowers(m))
                EXCEPT !.alpha_seed = a, !.PE_seed = qp, !.MB_seed = qm] :
                a \in {0, 3}, qp \in 0 .. MaxQSeed, qm \in 0 .. MaxQSeed}
           \cup {[WithModes(m, StandardPowers(m))
                EXCEPT !.fixed_Q = fq[1], !.k_AC = fq[2]] :
                fq \in {<<Val(500), 10000000>>, <<Val(4), 6>>,
                        <<Val(500), 6>>}} :
           m \in ModeCounts}

GainInputs == PowerGainInputs \cup KernelGainInputs

\* Every kind of inclusion shape.
ShapeInputs ==
    {[Base EXCEPT !.inc_shape = s] : s \in {"linear", "curvilinear", "other"}}

Inputs == SelectorInputs \cup TblInputs \cup MaskInputs \cup GainInputs
            \cup ShapeInputs

---------------------------------------------------------------------------
(* What the Fortran kernels return.                                        *)

QVals == << <<1, 0>>, <<0, 1>>, <<2, -1>>, <<0, 0>>, <<-1, 3>> >>

Triples(ns, np, na) == Range(ns) \X Range(np) \X Range(na)

\* An overlap tensor indexed [Stokes, pump, acoustic].
QTensor(seed, ns, np, na) ==
    [t \in Triples(ns, np, na) |->
        QVals[((seed + t[1] + 2 * t[2] + 3 * t[3]) % Len(QVals)) + 1]]

\* What ac_alpha_int, photoelastic_int and moving_boundary compute from the
\* solutions of this call: the complex loss integral of every AC mode and
\* the two overlap tensors.
AcAlphaInt == [k \in Range(inp.num_modes_AC) |-> <<inp.alpha_seed + k, 1>>]
PhotoelasticInt ==
    QTensor(inp.PE_seed, inp.num_modes_EM_Stokes, inp.num_modes_EM_pump,
            inp.num_modes_AC)
MovingBoundaryInt ==
    QTensor(inp.MB_seed, inp.num_modes_EM_Stokes, inp.num_modes_EM_pump,
            inp.num_modes_AC)

---------------------------------------------------------------------------
(* gain_and_qs, step by step.                                              *)

\* Lines 109-120: a selector in Fortran indexing, -1 for 'All'.
EncodeSelector(sel) == IF sel.kind = "All" THEN -1 ELSE sel.val + 1

\* numpy's indexing of an axis of length len: a negative index counts from
\* the end, anything outside [-len, len) raises IndexError.
PyIndexOK(i, len) == (-len) <= i /\ i < len
PyIndex(i, len) == IF i < 0 THEN i + len ELSE i

\* The re-indexing without the element map: AC element el reads EM element el.
TrimmedFieldNoMap(seed, num_modes) ==
    [t \in Range(ncomps) \X Range(nnodes) \X Range(num_modes)
            \X Range(inp.n_msh_el_AC) |->
        Sol1(seed, t[1], t[2], t[3], t[4])]

\* Lines 129-138: the EM field of the solution `seed`, on the AC elements.
TrimmedField(seed, num_modes) ==
    [t \in Range(ncomps) \X Range(nnodes) \X Range(num_modes)
            \X Range(inp.n_msh_el_AC) |->
        Sol1(seed, t[1], t[2], t[3],
             PyIndex(inp.el_convert_tbl[t[4]], inp.n_msh_el_EM))]

InList(v, list) == \E i \in 1 .. Len(list) : list[i] = v

\* The mask in the order of typ_el_AC instead of the EM domain's order.
RECURSIVE MaskLoopACOrder(_, _)
MaskLoopACOrder(el_typ, acc) ==
    IF el_typ >= Len(inp.typ_el_AC) THEN acc
    ELSE MaskLoopACOrder(el_typ + 1,
            IF inp.typ_el_AC[el_typ + 1] - 1 \in Range(inp.nb_typ_el)
            THEN Append(acc, CMul(inp.n_list[inp.typ_el_AC[el_typ + 1] - 1],
                                  inp.n_list[inp.typ_el_AC[el_typ + 1] - 1]))
            ELSE acc)

\* Lines 148-151: the loop over el_typ, from el_typ on, appending to acc.
RECURSIVE MaskLoop(_, _)
MaskLoop(el_typ, acc) ==
    IF el_typ >= inp.nb_typ_el THEN acc
    ELSE MaskLoop(el_typ + 1,
                  IF InList(el_typ + 1, inp.typ_el_AC)
                  THEN Append(acc, CMul(inp.n_list[el_typ], inp.n_list[el_typ]))
                  ELSE acc)

\* Lines 159, 167, 193, 203: the fast routine for linear element shapes, the
\* quadrature routine otherwise.
AlphaRoutine ==
    IF inp.inc_shape = "linear" THEN "ac_alpha_int_v2" ELSE "ac_alpha_int"
PERoutine ==
    IF inp.inc_shape = "linear" THEN "photoelastic_int_v2"
    ELSE "photoelastic_int"

AlphaRoutines == {"ac_alpha_int_v2", "ac_alpha_int"}
PERoutines == {"photoelastic_int_v2", "photoelastic_int"}
MBRoutines == {"moving_boundary"}

\* A kernel invocation: the routine, the three mode selectors and the
\* material selectors it was given (0 where the routine takes none).
Call(name, sel, tin, tout) ==
    [name |-> name, sel |-> sel, typ_in |-> tin, typ_out |-> tout]

\* The fixed-Q loss without the factor of a half.
FixedAlphaNoHalf(fixed_Q) ==
    [k \in Range(inp.num_modes_AC) |-> RDiv(RInt(inp.k_AC), RInt(fixed_Q))]

\* Lines 185-186: the fixed-Q loss and Q factors.
FixedAlpha(fixed_Q) ==
    [k \in Range(inp.num_modes_AC) |->
        RHalf(RDiv(RInt(inp.k_AC), RInt(fixed_Q)))]
FixedQFactors(fixed_Q) == [k \in Range(inp.num_modes_AC) |-> RInt(fixed_Q)]

\* Lines 178-179: the loss and Q factors from the kernel's integral a.
KernelAlpha(a) == [k \in Range(inp.num_modes_AC) |-> RInt(CReal(a[k]))]
KernelQFactors(al) ==
    [k \in Range(inp.num_modes_AC) |-> RHalf(RDiv(RInt(inp.k_AC), al[k]))]

\* The outer material with the caller's selector taken first.
OuterSelectorExplicitFirst ==
    IF inp.typ_select_out.kind # "None" THEN inp.typ_select_out.val
    ELSE IF Len(relevant_eps_effs) = 2 THEN 2
    ELSE -1

\* Lines 222-223: the outer material of the moving boundary.
OuterSelector ==
    IF Len(relevant_eps_effs) = 2 THEN 2
    ELSE IF inp.typ_select_out.kind = "None" THEN -1
    ELSE inp.typ_select_out.val

AllTriples ==
    Triples(inp.num_modes_EM_Stokes, inp.num_modes_EM_pump, inp.num_modes_AC)

\* The gain with Re(Q Q) for Re(Q conj(Q)).
GainNoConj(Q) ==
    [t \in AllTriples |->
        2 * inp.omega_EM * inp.Omega_AC * CReal(CMul(Q[t], Q[t]))]

\* Lines 245-247: 2 omega Omega Re(Q conj(Q)).
Gain(Q) ==
    [t \in AllTriples |->
        2 * inp.omega_EM * inp.Omega_AC * CReal(CMul(Q[t], CConj(Q[t])))]

\* Lines 249-255: P1 is the Stokes power, P2 the pump power, P3 the AC power.
NormalFact ==
    [t \in AllTriples |->
        RMul(RInt(inp.Stokes_power[t[1]] * inp.pump_power[t[2]]
                    * inp.AC_mode_power[t[3]]),
             alpha[t[3]])]

\* Lines 256-258: the real part of gain / normal_fact.
Normalised(g) == [t \in AllTriples |-> RDiv(RInt(g[t]), NormalFact[t])]

\* Line 241.
QTotal == [t \in AllTriples |-> CAdd(Q_PE[t], Q_MB[t])]

Encode ==
    /\ pc = "encode"
    /\ EM_ival_pump_fortran' = EncodeSelector(inp.EM_ival_pump)
    /\ EM_ival_Stokes_fortran' = EncodeSelector(inp.EM_ival_Stokes)
    /\ AC_ival_fortran' = EncodeSelector(inp.AC_ival)
    /\ pc' = "reindex"
    /\ UNCHANGED <<inp, trimmed_EM_pump_field, trimmed_EM_Stokes_field,
                   relevant_eps_effs, alpha, Q_factors, Q_PE, Q_MB,
                   typ_select_in, typ_select_out, bound, calls, interrupted,
                   result, err, svars>>

Reindex ==
    /\ pc = "reindex"
    /\ \/ /\ \A el \in Range(inp.n_msh_el_AC) :
                PyIndexOK(inp.el_convert_tbl[el], inp.n_msh_el_EM)
          /\ trimmed_EM_pump_field' =
                TrimmedField(inp.pump_seed, inp.num_modes_EM_pump)
          /\ trimmed_EM_Stokes_field' =
                TrimmedField(inp.Stokes_seed, inp.num_modes_EM_Stokes)
          /\ pc' = "mask"
          /\ err' = err
       \/ /\ \E el \in Range(inp.n_msh_el_AC) :
                ~PyIndexOK(inp.el_convert_tbl[el], inp.n_msh_el_EM)
          /\ pc' = "error"
          /\ err' = "IndexError"
          /\ UNCHANGED <<trimmed_EM_pump_field, trimmed_EM_Stokes_field>>
    /\ UNCHANGED <<inp, EM_ival_pump_fortran, EM_ival_Stokes_fortran,
                   AC_ival_fortran, relevant_eps_effs, alpha, Q_factors,
                   Q_PE, Q_MB, typ_select_in, typ_select_out, bound, calls,
                   interrupted, result, svars>>

Mask ==
    /\ pc = "mask"
    /\ relevant_eps_effs' = MaskLoop(0, <<>>)
    /\ pc' = "alpha"
    /\ UNCHANGED <<inp, EM_ival_pump_fortran, EM_ival_Stokes_fortran,
                   AC_ival_fortran, trimmed_EM_pump_field,
                   trimmed_EM_Stokes_field, alpha, Q_factors, Q_PE, Q_MB,
                   typ_select_in, typ_select_out, bound, calls, interrupted,
                   result, err, svars>>

\* The loss kernel invoked whether or not a fixed Q was given.
LossCallsAlways(fixed_Q) == <<Call(AlphaRoutine, <<>>, 0, 0)>>

\* Lines 153-175: the loss kernel is invoked only when fixed_Q is None.
LossCalls(fixed_Q) ==
    IF fixed_Q.kind = "None" THEN <<Call(AlphaRoutine, <<>>, 0, 0)>>
    ELSE <<>>

\* Lines 154-186.  An interrupted kernel leaves alpha unbound, and line 178
\* then raises UnboundLocalError.
AcousticLoss ==
    /\ pc = "alpha"
    /\ calls' = calls \o LossCalls(inp.fixed_Q)
    /\ \/ /\ inp.fixed_Q.kind = "None"
          /\ \/ /\ alpha' = KernelAlpha(AcAlphaInt)
                /\ Q_factors' = KernelQFactors(KernelAlpha(AcAlphaInt))
                /\ bound' = bound \cup {"alpha"}
                /\ pc' = "pe"
                /\ UNCHANGED <<interrupted, err>>
             \/ /\ interrupted' = interrupted \cup {AlphaRoutine}
                /\ pc' = "error"
                /\ err' = "UnboundLocalError"
                /\ UNCHANGED <<alpha, Q_factors, bound>>
       \/ /\ inp.fixed_Q.kind = "val"
          /\ alpha' = FixedAlpha(inp.fixed_Q.val)
          /\ Q_factors' = FixedQFactors(inp.fixed_Q.val)
          /\ bound' = bound \cup {"alpha"}
          /\ pc' = "pe"
          /\ UNCHANGED <<interrupted, err>>
    /\ UNCHANGED <<inp, EM_ival_pump_fortran, EM_ival_Stokes_fortran,
                   AC_ival_fortran, trimmed_EM_pump_field,
                   trimmed_EM_Stokes_field, relevant_eps_effs, Q_PE, Q_MB,
                   typ_select_in, typ_select_out, result, svars>>

\* Lines 189-217.  An interrupted kernel leaves Q_PE unbound; the function
\* goes on to the moving-boundary call.
Photoelastic ==
    /\ pc = "pe"
    /\ calls' = Append(calls,
            Call(PERoutine,
                 <<EM_ival_pump_fortran, EM_ival_Stokes_fortran,
                   AC_ival_fortran>>, 0, 0))
    /\ \/ /\ Q_PE' = PhotoelasticInt
          /\ bound' = bound \cup {"Q_PE"}
          /\ UNCHANGED interrupted
       \/ /\ interrupted' = interrupted \cup {PERoutine}
          /\ UNCHANGED <<Q_PE, bound>>
    /\ pc' = "mb"
    /\ UNCHANGED <<inp, EM_ival_pump_fortran, EM_ival_Stokes_fortran,
                   AC_ival_fortran, trimmed_EM_pump_field,
                   trimmed_EM_Stokes_field, relevant_eps_effs, alpha,
                   Q_factors, Q_MB, typ_select_in, typ_select_out, result,
                   err, svars>>

\* Lines 220-239.
MovingBoundary ==
    /\ pc = "mb"
    /\ typ_select_in' = 1
    /\ typ_select_out' = OuterSelector
    /\ calls' = Append(calls,
            Call("moving_boundary",
                 <<EM_ival_pump_fortran, EM_ival_Stokes_fortran,
                   AC_ival_fortran>>, 1, OuterSelector))
    /\ \/ /\ Q_MB' = MovingBoundaryInt
          /\ bound' = bound \cup {"Q_MB"}
          /\ UNCHANGED interrupted
       \/ /\ interrupted' = interrupted \cup {"moving_boundary"}
          /\ UNCHANGED <<Q_MB, bound>>
    /\ pc' = "assemble"
    /\ UNCHANGED <<inp, EM_ival_pump_fortran, EM_ival_Stokes_fortran,
                   AC_ival_fortran, trimmed_EM_pump_field,
                   trimmed_EM_Stokes_field, relevant_eps_effs, alpha,
                   Q_factors, Q_PE, result, err, svars>>

\* The assembly returning a result with nothing in place of an integral
\* that was never computed.
AssembleWithDefaults ==
    /\ pc = "assemble"
    /\ result' = IF {"Q_PE", "Q_MB"} \subseteq bound
                 THEN [SBS_gain |-> Normalised(Gain(QTotal)),
                       SBS_gain_PE |-> Normalised(Gain(Q_PE)),
                       SBS_gain_MB |-> Normalised(Gain(Q_MB)),
                       alpha |-> alpha,
                       Q_factors |-> Q_factors]
                 ELSE [SBS_gain |-> <<>>, SBS_gain_PE |-> <<>>,
                       SBS_gain_MB |-> <<>>, alpha |-> alpha,
                       Q_factors |-> Q_factors]
    /\ pc' = "done"
    /\ UNCHANGED <<inp, EM_ival_pump_fortran, EM_ival_Stokes_fortran,
                   AC_ival_fortran, trimmed_EM_pump_field,
                   trimmed_EM_Stokes_field, relevant_eps_effs, alpha,
                   Q_factors, Q_PE, Q_MB, typ_select_in, typ_select_out,
                   bound, calls, interrupted, err, svars>>

\* Lines 241-260.  Line 241 reads Q_PE and Q_MB: UnboundLocalError when a
\* kernel was interrupted.  A zero normal_fact divides without any error.
Assemble ==
    /\ pc = "assemble"
    /\ \/ /\ {"Q_PE", "Q_MB"} \subseteq bound
          /\ result' = [SBS_gain |-> Normalised(Gain(QTotal)),
                        SBS_gain_PE |-> Normalised(Gain(Q_PE)),
                        SBS_gain_MB |-> Normalised(Gain(Q_MB)),
                        alpha |-> alpha,
                        Q_factors |-> Q_factors]
          /\ pc' = "done"
          /\ err' = err
       \/ /\ ~({"Q_PE", "Q_MB"} \subseteq bound)
          /\ pc' = "error"
          /\ err' = "UnboundLocalError"
          /\ result' = result
    /\ UNCHANGED <<inp, EM_ival_pump_fortran, EM_ival_Stokes_fortran,
                   AC_ival_fortran, trimmed_EM_pump_field,
                   trimmed_EM_Stokes_field, relevant_eps_effs, alpha,
                   Q_factors, Q_PE, Q_MB, typ_select_in, typ_select_out,
                   bound, calls, interrupted, svars>>

SymIdle ==
    /\ spc = "idle"
    /\ sinp = <<>>
    /\ ival = 0
    /\ m_interp = <<>>
    /\ m_Ex = <<>>
    /\ m_Ey = <<>>
    /\ scores = <<>>
    /\ sym_list = <<>>

Init ==
    /\ pc = "encode"
    /\ inp \in Inputs
    /\ EM_ival_pump_fortran = 0
    /\ EM_ival_Stokes_fortran = 0
    /\ AC_ival_fortran = 0
    /\ trimmed_EM_pump_field = <<>>
    /\ trimmed_EM_Stokes_field = <<>>
    /\ relevant_eps_effs = <<>>
    /\ alpha = <<>>
    /\ Q_factors = <<>>
    /\ Q_PE = <<>>
    /\ Q_MB = <<>>
    /\ typ_select_in = 0
    /\ typ_select_out = 0
    /\ bound = {}
    /\ calls = <<>>
    /\ interrupted = {}
    /\ result = <<>>
    /\ err = "none"
    /\ SymIdle

Next ==
    \/ Encode
    \/ Reindex
    \/ Mask
    \/ AcousticLoss
    \/ Photoelastic
    \/ MovingBoundary
    \/ Assemble

Spec == Init /\ [][Next]_vars


---------------------------------------------------------------------------
(* symmetries.  The grids are complex numbers in units of 1e-6.  The       *)
(* interpolators return masked arrays: where they found no triangle the    *)
(* entry is masked and its data is NaN; such an entry is NaN here.         *)

NaN == <<>>
IsNaN(z) == Len(z) = 0

\* The largest r with r*r <= n.
ISqrt(n) == CHOOSE r \in 0 .. n : r * r <= n /\ n < (r + 1) * (r + 1)

\* np.abs of a complex number; exact when the magnitude is a whole number
\* of units, as it is for every value the grids below hold.
CAbs(z) ==
    LET g == Gcd(Abs(z[1]), Abs(z[2]))
    IN  IF g = 0 THEN 0
        ELSE g * ISqrt((z[1] \div g) * (z[1] \div g)
                        + (z[2] \div g) * (z[2] \div g))

CNeg(z) == IF IsNaN(z) THEN NaN ELSE <<-z[1], -z[2]>>
CSub(a, b) ==
    IF IsNaN(a) \/ IsNaN(b) THEN NaN ELSE <<a[1] - b[1], a[2] - b[2]>>

Zero == <<0, 0>>
Tenth == <<MirrorThreshold, 0>>

\* The pairs of values a grid is filled from.
ValueFamilies ==
    {{Zero, Tenth},
     {Tenth, CNeg(Tenth)},
     {Tenth, NaN},
     {Zero, NaN},
     {<<3, 0>>, <<0, 4>>},
     {Zero, <<0, -4>>},
     {<<3 * MirrorThreshold, 0>>, <<0, 4 * MirrorThreshold>>}}

GridShapes == {<<2, 2>>, <<1, 3>>, <<3, 1>>}

Cells(nx, ny) == Range(nx) \X Range(ny)

NaNCells(m) == {p \in DOMAIN m : IsNaN(m[p])}

\* Lines 357-360: what the interpolators return on an nx-by-ny grid: the
\* two components are undefined at the same points, those outside the mesh.
Interpolated(nx, ny) ==
    UNION {{g \in [Ex : [Cells(nx, ny) -> V], Ey : [Cells(nx, ny) -> V]] :
                NaNCells(g.Ex) = NaNCells(g.Ey)} :
           V \in ValueFamilies}

SymInputs ==
    {[n_pts_x |-> sh[1], n_pts_y |-> sh[2], num_modes |-> nm,
      negligible_threshold |-> nt] :
        sh \in GridShapes, nm \in 1 .. MaxSymModes,
        nt \in {DefaultNegligible, 4}}

n_pts_x == sinp.n_pts_x
n_pts_y == sinp.n_pts_y

RECURSIVE SetMax(_)
SetMax(S) ==
    LET x == CHOOSE y \in S : TRUE
    IN  IF S = {x} THEN x
        ELSE LET r == SetMax(S \ {x}) IN IF x > r THEN x ELSE r

\* Line 364: the magnitudes of the entries that are not NaN.
DefinedAbs(m) == {CAbs(m[p]) : p \in DOMAIN m \ NaNCells(m)}

\* The zeroing with the threshold itself counted as negligible.
ZeroedAtThreshold(m) ==
    IF SetMax(DefinedAbs(m)) <= sinp.negligible_threshold
    THEN [p \in DOMAIN m |-> Zero]
    ELSE m

\* Lines 364-367: a component whose largest magnitude is below the
\* threshold becomes np.zeros of the same shape.
Zeroed(m) ==
    IF SetMax(DefinedAbs(m)) < sinp.negligible_threshold
    THEN [p \in DOMAIN m |-> Zero]
    ELSE m

\* Lines 370-375 and 386-391: the mirrored arrays are plain complex arrays
\* of zeros; reading a masked entry gives the masked constant, -1 times it
\* is the masked constant again, and storing it stores its data, 0.
Stored(z) == IF IsNaN(z) THEN Zero ELSE z

\* The y mirror of field_y without its change of sign.
YMirrorYNoSign(ey) ==
    [p \in DOMAIN ey |-> Stored(ey[<<p[1], n_pts_y - p[2] - 1>>])]

\* Lines 384-391.
YMirrorX(ex) ==
    [p \in DOMAIN ex |-> Stored(ex[<<p[1], n_pts_y - p[2] - 1>>])]
YMirrorY(ey) ==
    [p \in DOMAIN ey |-> Stored(CNeg(ey[<<p[1], n_pts_y - p[2] - 1>>]))]
XMirrorX(ex) ==
    [p \in DOMAIN ex |-> Stored(CNeg(ex[<<n_pts_x - p[1] - 1, p[2]>>]))]
XMirrorY(ey) ==
    [p \in DOMAIN ey |-> Stored(ey[<<n_pts_x - p[1] - 1, p[2]>>])]
Rotated(e) ==
    [p \in DOMAIN e |->
        Stored(CNeg(e[<<n_pts_x - p[1] - 1, n_pts_y - p[2] - 1>>]))]

RECURSIVE SumOver(_, _)
SumOver(f, S) ==
    IF S = {} THEN 0
    ELSE LET p == CHOOSE q \in S : TRUE IN f[p] + SumOver(f, S \ {p})

\* Lines 393-398: np.sum(np.abs(a - b)) with a the component grid and b
\* one of its mirrored arrays: the difference is masked where a is, and the
\* sum of a masked array runs over its unmasked entries.
SumAbsDiff(a, b) ==
    RInt(SumOver([p \in DOMAIN a \ NaNCells(a) |-> CAbs(CSub(a[p], b[p]))],
                 DOMAIN a \ NaNCells(a)))

RAdd(p, q) ==
    IF p.d = 0 \/ q.d = 0
    THEN (IF p.d = 0 /\ p.n # 0 /\ (q.d # 0 \/ q.n = p.n) THEN p
          ELSE IF q.d = 0 /\ q.n # 0 /\ p.d # 0 THEN q
          ELSE Frac(0, 0))
    ELSE Frac(p.n * q.d + q.n * p.d, p.d * q.d)

\* Lines 399-401.
Score(sx, sy) == RDiv(RAdd(sx, sy), RInt(n_pts_x * n_pts_y))
SigmaY(ex, ey) ==
    Score(SumAbsDiff(ex, YMirrorX(ex)), SumAbsDiff(ey, YMirrorY(ey)))
SigmaX(ex, ey) ==
    Score(SumAbsDiff(ex, XMirrorX(ex)), SumAbsDiff(ey, XMirrorY(ey)))
C2(ex, ey) ==
    Score(SumAbsDiff(ex, Rotated(ex)), SumAbsDiff(ey, Rotated(ey)))

RIsNaN(q) == q.d = 0 /\ q.n = 0
RAbs(q) == [n |-> Abs(q.n), d |-> q.d]
\* q > t for an integer t, as floats compare: false when q is NaN.
RGtInt(q, t) ==
    IF q.d = 0 THEN q.n > 0 ELSE q.n > t * q.d
RLtInt(q, t) ==
    IF q.d = 0 THEN q.n < 0 ELSE q.n < t * q.d

\* The label with -1 from the threshold on.
LabelFromThreshold(score, threshold) ==
    IF RLtInt(RAbs(score), threshold) THEN 1 ELSE -1

\* Lines 403-414.
Label(score, threshold) == IF RGtInt(RAbs(score), threshold) THEN -1 ELSE 1

\* Lines 305-362: the interpolators are evaluated for mode ival.
Interpolate ==
    /\ spc = "interp"
    /\ ival < sinp.num_modes
    /\ \E g \in Interpolated(n_pts_x, n_pts_y) :
          /\ m_interp' = g
          /\ m_Ex' = g.Ex
          /\ m_Ey' = g.Ey
    /\ spc' = "negligible"
    /\ UNCHANGED <<sinp, ival, scores, sym_list, gvars>>

\* Lines 364-367: np.max of an empty selection raises ValueError.
Negligible ==
    /\ spc = "negligible"
    /\ \/ /\ DefinedAbs(m_Ex) # {}
          /\ m_Ex' = Zeroed(m_Ex)
          /\ m_Ey' = Zeroed(m_Ey)
          /\ spc' = "score"
       \/ /\ DefinedAbs(m_Ex) = {}
          /\ spc' = "ValueError"
          /\ UNCHANGED <<m_Ex, m_Ey>>
    /\ UNCHANGED <<sinp, ival, m_interp, scores, sym_list, gvars>>

\* Lines 370-423.
Classify ==
    /\ spc = "score"
    /\ scores' = [sigma_y |-> SigmaY(m_Ex, m_Ey),
                  sigma_x |-> SigmaX(m_Ex, m_Ey),
                  C_2 |-> C2(m_Ex, m_Ey)]
    /\ sym_list' = Append(sym_list,
                          <<Label(C2(m_Ex, m_Ey), RotationThreshold),
                            Label(SigmaY(m_Ex, m_Ey), MirrorThreshold),
                            Label(SigmaX(m_Ex, m_Ey), MirrorThreshold)>>)
    /\ spc' = "scored"
    /\ UNCHANGED <<sinp, ival, m_interp, m_Ex, m_Ey, gvars>>

\* Line 305: the next mode.
NextMode ==
    /\ spc = "scored"
    /\ ival' = ival + 1
    /\ spc' = "interp"
    /\ m_interp' = <<>>
    /\ m_Ex' = <<>>
    /\ m_Ey' = <<>>
    /\ scores' = <<>>
    /\ UNCHANGED <<sinp, sym_list, gvars>>

\* Line 486.
SymReturn ==
    /\ spc = "interp"
    /\ ival = sinp.num_modes
    /\ spc' = "done"
    /\ UNCHANGED <<sinp, ival, m_interp, m_Ex, m_Ey, scores, sym_list, gvars>>

GainIdle ==
    /\ pc = "idle"
    /\ inp = Base
    /\ EM_ival_pump_fortran = 0
    /\ EM_ival_Stokes_fortran = 0
    /\ AC_ival_fortran = 0
    /\ trimmed_EM_pump_field = <<>>
    /\ trimmed_EM_Stokes_field = <<>>
    /\ relevant_eps_effs = <<>>
    /\ alpha = <<>>
    /\ Q_factors = <<>>
    /\ Q_PE = <<>>
    /\ Q_MB = <<>>
    /\ typ_select_in = 0
    /\ typ_select_out = 0
    /\ bound = {}
    /\ calls = <<>>
    /\ interrupted = {}
    /\ result = <<>>
    /\ err = "none"

SymInit ==
    /\ GainIdle
    /\ spc = "interp"
    /\ sinp \in SymInputs
    /\ ival = 0
    /\ m_interp = <<>>
    /\ m_Ex = <<>>
    /\ m_Ey = <<>>
    /\ scores = <<>>
    /\ sym_list = <<>>

SymNext ==
    \/ Interpolate
    \/ Negligible
    \/ Classify
    \/ NextMode
    \/ SymReturn

SpecSym == SymInit /\ [][SymNext]_vars


---------------------------------------------------------------------------
(* The claims about gain_and_qs, checked under Spec.                       *)

\* The re-indexing loop has run to its end.
Reindexed == pc \notin {"idle", "encode", "reindex"} /\ err # "IndexError"

\* The material mask has been built.
Masked == Reindexed /\ pc # "mask"

TblValid ==
    \A e \in Range(inp.n_msh_el_AC) :
        0 <= inp.el_convert_tbl[e] /\ inp.el_convert_tbl[e] < inp.n_msh_el_EM

ElementAxis(field) == {t[4] : t \in DOMAIN field}
ModeAxis(field) == {t[3] : t \in DOMAIN field}

TrimmedIs(field, seed, num_modes) ==
    /\ ElementAxis(field) = Range(inp.n_msh_el_AC)
    /\ ModeAxis(field) = Range(num_modes)
    /\ \A e \in Range(inp.n_msh_el_AC), x \in 0 .. 2, n \in 0 .. 5,
          iv \in Range(num_modes) :
            field[<<x, n, iv, e>>] = Sol1(seed, x, n, iv, inp.el_convert_tbl[e])

\* C1: for a valid element map, each trimmed field has exactly n_msh_el_AC
\* elements and trimmed[x,n,ival,e] = em_field[x,n,ival,el_convert_tbl[e]]
\* for every component, node, AC element and every mode.
C1_Reindexed ==
    (Reindexed /\ TblValid) =>
        /\ TrimmedIs(trimmed_EM_pump_field, inp.pump_seed,
                     inp.num_modes_EM_pump)
        /\ TrimmedIs(trimmed_EM_Stokes_field, inp.Stokes_seed,
                     inp.num_modes_EM_Stokes)

\* A map that is valid, is not the identity and repeats no element, handed
\* on to the photoelastic kernel with two pump modes.
C1_Witness ==
    /\ pc = "mb"
    /\ TblValid
    /\ inp.n_msh_el_AC = 2
    /\ inp.el_convert_tbl[0] = 1
    /\ inp.el_convert_tbl[1] = 0
    /\ inp.num_modes_EM_pump = 2
    /\ trimmed_EM_pump_field[<<2, 5, 1, 0>>] = Sol1(inp.pump_seed, 2, 5, 1, 1)

\* The 0-based EM material types that are in typ_el_AC.
RelevantTypes == {t \in Range(inp.nb_typ_el) : InList(t + 1, inp.typ_el_AC)}

\* The i-th smallest element of a set of integers (i from 1).
Nth(S, i) == CHOOSE t \in S : Cardinality({u \in S : u < t}) = i - 1

Squared(z) == <<z[1] * z[1] - z[2] * z[2], 2 * z[1] * z[2]>>

\* C2: relevant_eps_effs is n_list[t]**2 for the 0-based t with t+1 in
\* typ_el_AC, in increasing t whatever the order of typ_el_AC, one entry per
\* such t.
C2_MaterialMask ==
    Masked =>
        /\ Len(relevant_eps_effs) = Cardinality(RelevantTypes)
        /\ \A i \in 1 .. Len(relevant_eps_effs) :
              relevant_eps_effs[i] = Squared(inp.n_list[Nth(RelevantTypes, i)])

\* typ_el_AC lists types 3 and 1 in that order; the mask has them as 1, 3.
C2_Witness ==
    /\ Masked
    /\ inp.nb_typ_el = 3
    /\ inp.typ_el_AC = <<3, 1>>
    /\ relevant_eps_effs =
            <<Squared(inp.n_list[0]), Squared(inp.n_list[2])>>

Norm2(z) == z[1] * z[1] + z[2] * z[2]

\* P_Stokes[i] * P_pump[j] * P_AC[k] * alpha[k] as numerator and denominator.
PowerProduct(t) ==
    inp.Stokes_power[t[1]] * inp.pump_power[t[2]] * inp.AC_mode_power[t[3]]

GainIs(r, q, t) ==
    r = Frac(2 * inp.omega_EM * inp.Omega_AC * Norm2(q) * result.alpha[t[3]].d,
             PowerProduct(t) * result.alpha[t[3]].n)

FixedQGiven == inp.fixed_Q.kind = "val"

\* C4: with a fixed Q the returned alpha and Q_factors have num_modes_AC
\* entries, every alpha is 0.5*k_AC/fixed_Q and every Q factor is fixed_Q;
\* k_AC = 1e7 and fixed_Q = 500 give alpha = 1e4.
C4_FixedQ ==
    (pc = "done" /\ FixedQGiven) =>
        /\ DOMAIN result.alpha = Range(inp.num_modes_AC)
        /\ DOMAIN result.Q_factors = Range(inp.num_modes_AC)
        /\ \A k \in Range(inp.num_modes_AC) :
              /\ result.alpha[k].d > 0
              /\ 2 * inp.fixed_Q.val * result.alpha[k].n
                    = inp.k_AC * result.alpha[k].d
              /\ result.Q_factors[k] = RInt(inp.fixed_Q.val)
              /\ (inp.k_AC = 10000000 /\ inp.fixed_Q.val = 500) =>
                    result.alpha[k] = RInt(10000)

\* k_AC = 1e7, fixed_Q = 500 and three AC modes, one of them without power.
C4_Witness ==
    /\ pc = "done"
    /\ inp.k_AC = 10000000
    /\ inp.fixed_Q = Val(500)
    /\ inp.num_modes_AC = 3
    /\ inp.AC_mode_power[1] = 0
    /\ calls[1].name \in PERoutines
    /\ result.alpha = [k \in 0 .. 2 |-> RInt(10000)]
    /\ result.Q_factors = [k \in 0 .. 2 |-> RInt(500)]

ZeroPower ==
    \/ \E j \in Range(inp.num_modes_EM_pump) : inp.pump_power[j] = 0
    \/ \E i \in Range(inp.num_modes_EM_Stokes) : inp.Stokes_power[i] = 0
    \/ \E k \in Range(inp.num_modes_AC) : inp.AC_mode_power[k] = 0

\* C5: a call with a zero mode power ends in an error and never returns
\* gain tensors divided by the zero normal_fact.
C5_ZeroPowerRejected == ZeroPower => pc # "done"

\* C6: after an interrupted kernel call no later kernel is invoked, and no
\* result is returned.
C6_InterruptStops ==
    /\ \A i \in 1 .. Len(calls) :
          calls[i].name \in interrupted => i = Len(calls)
    /\ pc = "done" => interrupted = {}

\* C7: with an element map entry outside [0, EM element count) the call
\* fails with IndexError in the re-indexing, before any kernel call.
C7_BadMapRejected ==
    ~TblValid => (calls = <<>> /\ (pc \in {"encode", "reindex"}
                                    \/ err = "IndexError"))

OutOfRange(sel, num) == sel.kind = "int" /\ ~(0 <= sel.val /\ sel.val < num)

SelectorOutOfRange ==
    \/ OutOfRange(inp.EM_ival_pump, inp.num_modes_EM_pump)
    \/ OutOfRange(inp.EM_ival_Stokes, inp.num_modes_EM_Stokes)
    \/ OutOfRange(inp.AC_ival, inp.num_modes_AC)

\* C8: with a mode selector outside [0, num_modes) no overlap kernel is
\* invoked with the selectors.
C8_BadSelectorRejected ==
    SelectorOutOfRange =>
        \A i \in 1 .. Len(calls) : calls[i].name \in AlphaRoutines

---------------------------------------------------------------------------
(* The claims about symmetries, checked under SpecSym.                     *)

Labels == sym_list[Len(sym_list)]

\* The label the code gives: -1 when the score is above the threshold.
LabelAbove(label, score, threshold) ==
    /\ label \in {1, -1}
    /\ label = -1 <=> (score.d # 0 /\ score.n > threshold * score.d)

\* C9 as amended: each label is -1 exactly when the score is strictly above
\* the operation's threshold (0.1 for the mirrors, 0.2 for the rotation) and
\* +1 otherwise, also when the score equals the threshold.
C9_LabelAboveThreshold ==
    spc = "scored" =>
        /\ LabelAbove(Labels[1], scores.C_2, RotationThreshold)
        /\ LabelAbove(Labels[2], scores.sigma_y, MirrorThreshold)
        /\ LabelAbove(Labels[3], scores.sigma_x, MirrorThreshold)

LabelBelow(label, score, threshold) ==
    label = 1 <=> (score.d # 0 /\ score.n < threshold * score.d)

\* C9 as claimed, on grids defined everywhere: each label is +1 exactly when
\* the score is strictly below the threshold, and -1 when it equals it.
C9_LabelBelowThreshold ==
    (spc = "scored" /\ NaNCells(m_interp.Ex) = {}) =>
        /\ LabelBelow(Labels[1], scores.C_2, RotationThreshold)
        /\ LabelBelow(Labels[2], scores.sigma_y, MirrorThreshold)
        /\ LabelBelow(Labels[3], scores.sigma_x, MirrorThreshold)

\* A y-mirror score of exactly 0.1 labelled +1 and a rotation score above
\* 0.2 labelled -1.
C9_Witness ==
    /\ spc = "scored"
    /\ scores.sigma_y = RInt(MirrorThreshold)
    /\ Labels[2] = 1
    /\ scores.C_2.d # 0
    /\ scores.C_2.n > RotationThreshold * scores.C_2.d
    /\ Labels[1] = -1

Defined(g) == NaNCells(g.Ex) = {} /\ NaNCells(g.Ey) = {}

ReflectY(f) == [p \in DOMAIN f |-> f[<<p[1], n_pts_y - 1 - p[2]>>]]
ReflectX(f) == [p \in DOMAIN f |-> f[<<n_pts_x - 1 - p[1], p[2]>>]]
Negated(f) == [p \in DOMAIN f |-> <<-f[p][1], -f[p][2]>>]

Even(f, g) == f = g
Odd(f, g) == f = Negated(g)

\* The grids as interpolated, and as scored (after the negligible check).
GridPairs == {m_interp, [Ex |-> m_Ex, Ey |-> m_Ey]}

\* C10: on grids defined everywhere, field_x even and field_y odd under the
\* y reflection give a y-mirror score 0 and label +1; field_x odd and field_y
\* even under the x reflection give an x-mirror score 0 and label +1; both
\* odd under the double reflection give a C2 score 0 and label +1; and the
\* reflected grid has the same three scores as the grid itself.
C10_SignConvention ==
    (spc = "scored" /\ Defined(m_interp)) =>
        /\ \A g \in GridPairs :
              /\ (Even(g.Ex, ReflectY(g.Ex)) /\ Odd(g.Ey, ReflectY(g.Ey))) =>
                    (scores.sigma_y = RInt(0) /\ Labels[2] = 1)
              /\ (Odd(g.Ex, ReflectX(g.Ex)) /\ Even(g.Ey, ReflectX(g.Ey))) =>
                    (scores.sigma_x = RInt(0) /\ Labels[3] = 1)
              /\ (Odd(g.Ex, ReflectX(ReflectY(g.Ex)))
                    /\ Odd(g.Ey, ReflectX(ReflectY(g.Ey)))) =>
                    (scores.C_2 = RInt(0) /\ Labels[1] = 1)
        /\ SigmaY(ReflectY(m_Ex), ReflectY(m_Ey)) = scores.sigma_y
        /\ SigmaX(ReflectX(m_Ex), ReflectX(m_Ey)) = scores.sigma_x
        /\ C2(ReflectX(ReflectY(m_Ex)), ReflectX(ReflectY(m_Ey))) = scores.C_2
        /\ SigmaY(YMirrorX(m_Ex), YMirrorY(m_Ey)) = scores.sigma_y
        /\ SigmaX(XMirrorX(m_Ex), XMirrorY(m_Ey)) = scores.sigma_x
        /\ Label(SigmaY(ReflectY(m_Ex), ReflectY(m_Ey)), MirrorThreshold)
                = Labels[2]
        /\ Label(SigmaX(ReflectX(m_Ex), ReflectX(m_Ey)), MirrorThreshold)
                = Labels[3]
        /\ Label(C2(ReflectX(ReflectY(m_Ex)), ReflectX(ReflectY(m_Ey))),
                 RotationThreshold) = Labels[1]

\* A 2-by-2 grid with field_x = 0.1 everywhere and field_y = 0.1 on one row,
\* -0.1 on the other: even and odd under the y reflection, score 0, label +1,
\* while the x-mirror score is not 0.
C10_Witness ==
    /\ spc = "scored"
    /\ n_pts_x = 2
    /\ n_pts_y = 2
    /\ Defined(m_interp)
    /\ \A p \in DOMAIN m_Ex : m_Ex[p] = Tenth
    /\ \A ix \in 0 .. 1 : m_Ey[<<ix, 0>>] = Tenth /\ m_Ey[<<ix, 1>>] = CNeg(Tenth)
    /\ scores.sigma_y = RInt(0)
    /\ scores.sigma_x # RInt(0)
    /\ Labels[2] = 1

PartnerY(p) == <<p[1], n_pts_y - 1 - p[2]>>
PartnerX(p) == <<n_pts_x - 1 - p[1], p[2]>>
PartnerC2(p) == <<n_pts_x - 1 - p[1], n_pts_y - 1 - p[2]>>

Signed(s, z) == IF s = 1 THEN z ELSE CNeg(z)

\* The points of a component grid that are defined and whose partner is.
DefinedPairs(a, P(_)) == {p \in DOMAIN a : ~IsNaN(a[p]) /\ ~IsNaN(a[P(p)])}

\* The sum of |a - s * partner of a| over the defined points with a defined
\* partner only.
DefinedPairSum(a, P(_), s) ==
    RInt(SumOver([p \in DefinedPairs(a, P) |->
                        CAbs(CSub(a[p], Signed(s, a[P(p)])))],
                 DefinedPairs(a, P)))

\* The three scores with every term that involves an undefined point left
\* out.
DefinedSigmaY ==
    Score(DefinedPairSum(m_Ex, PartnerY, 1), DefinedPairSum(m_Ey, PartnerY, -1))
DefinedSigmaX ==
    Score(DefinedPairSum(m_Ex, PartnerX, -1), DefinedPairSum(m_Ey, PartnerX, 1))
DefinedC2 ==
    Score(DefinedPairSum(m_Ex, PartnerC2, -1),
          DefinedPairSum(m_Ey, PartnerC2, -1))

\* A component was replaced by zeros exactly when all its defined entries
\* are below the negligible threshold.
ZeroedByDefined(before, after) ==
    IF \A p \in DOMAIN before :
            IsNaN(before[p]) \/ CAbs(before[p]) < sinp.negligible_threshold
    THEN after = [p \in DOMAIN before |-> Zero]
    ELSE after = before

\* C11: an undefined grid point adds nothing to the negligible-magnitude
\* maximum nor to the three score sums, as the point itself and as the
\* mirror or rotation partner of a defined point: the scores are those of
\* the terms between defined points, and so are the labels.
C11_UndefinedExcluded ==
    spc = "scored" =>
        /\ ZeroedByDefined(m_interp.Ex, m_Ex)
        /\ ZeroedByDefined(m_interp.Ey, m_Ey)
        /\ scores.sigma_y = DefinedSigmaY
        /\ scores.sigma_x = DefinedSigmaX
        /\ scores.C_2 = DefinedC2
        /\ Labels = <<Label(DefinedC2, RotationThreshold),
                      Label(DefinedSigmaY, MirrorThreshold),
                      Label(DefinedSigmaX, MirrorThreshold)>>

\* A 1-by-3 grid defined at its first two points, both components 0.1
\* there: the terms between defined points give a y-mirror score of 0.0667
\* and label +1, the code scores 0.1333 and labels -1.
C11_PartnerCounted ==
    /\ spc = "scored"
    /\ n_pts_x = 1
    /\ n_pts_y = 3
    /\ NaNCells(m_Ex) = {<<0, 2>>}
    /\ Label(DefinedSigmaY, MirrorThreshold) = 1
    /\ Labels[2] = -1

\* The scores of a pair of component grids.
ScoresOf(ex, ey) ==
    [sigma_y |-> SigmaY(ex, ey), sigma_x |-> SigmaX(ex, ey), C_2 |-> C2(ex, ey)]

AllZero(m) == \A p \in DOMAIN m : m[p] = Zero

\* The largest magnitude over the defined points of m is below the
\* negligible threshold.
BelowNegligible(m) ==
    \A p \in DOMAIN m :
        IsNaN(m[p]) \/ CAbs(m[p]) < sinp.negligible_threshold

\* C12: when the scores are computed, a component whose largest magnitude
\* over its defined points is strictly below negligible_threshold is 0 at
\* every grid point, a component whose largest magnitude is at or above the
\* threshold is as interpolated, each component on its own; the scores are
\* those of these grids.
C12_NegligibleZeroed ==
    spc \in {"score", "scored"} =>
        /\ BelowNegligible(m_interp.Ex) => AllZero(m_Ex)
        /\ ~BelowNegligible(m_interp.Ex) => m_Ex = m_interp.Ex
        /\ BelowNegligible(m_interp.Ey) => AllZero(m_Ey)
        /\ ~BelowNegligible(m_interp.Ey) => m_Ey = m_interp.Ey
        /\ spc = "scored" => scores = ScoresOf(m_Ex, m_Ey)

\* Threshold 4e-6: field_x is 3e-6 everywhere and is zeroed, field_y
\* reaches exactly 4e-6 and is left as interpolated.
C12_Witness ==
    /\ spc = "scored"
    /\ sinp.negligible_threshold = 4
    /\ \A p \in DOMAIN m_interp.Ex : m_interp.Ex[p] = <<3, 0>>
    /\ AllZero(m_Ex)
    /\ \E p \in DOMAIN m_interp.Ey : m_interp.Ey[p] = <<0, 4>>
    /\ \E p \in DOMAIN m_interp.Ey : m_interp.Ey[p] = <<3, 0>>
    /\ m_Ey = m_interp.Ey
    /\ scores.C_2 # RInt(0)

---------------------------------------------------------------------------
(* Further claims about gain_and_qs, checked under Spec.                   *)

\* The invocations of the moving-boundary kernel so far.
MBCalls == {i \in 1 .. Len(calls) : calls[i].name \in MBRoutines}

\* The outer selector the claim gives for the call's arguments.
ClaimedOuter ==
    IF Cardinality(RelevantTypes) = 2 THEN 2
    ELSE IF inp.typ_select_out.kind = "None" THEN -1
    ELSE inp.typ_select_out.val

\* C13: the moving-boundary kernel is given the inner selector 1; its outer
\* selector is 2 when exactly two materials are relevant, whatever
\* typ_select_out the caller passed, and otherwise the caller's
\* typ_select_out, or -1 when the caller passed none.
C13_MaterialSelection ==
    /\ \A i \in MBCalls :
          calls[i].typ_in = 1 /\ calls[i].typ_out = ClaimedOuter
    /\ pc \in {"assemble", "done"} =>
          (MBCalls # {} /\ typ_select_in = 1 /\ typ_select_out = ClaimedOuter)

\* Two relevant materials out of three and typ_select_out=3 from the
\* caller: the kernel is called with outer selector 2.
C13_Witness ==
    /\ pc = "done"
    /\ inp.nb_typ_el = 3
    /\ Cardinality(RelevantTypes) = 2
    /\ inp.typ_select_out = Val(3)
    /\ \E i \in MBCalls : calls[i].typ_in = 1 /\ calls[i].typ_out = 2

\* Which of the three integrals a routine computes.
KindOf(name) ==
    IF name \in AlphaRoutines THEN "loss"
    ELSE IF name \in PERoutines THEN "photoelastic"
    ELSE "moving_boundary"

CallKinds == [i \in 1 .. Len(calls) |-> KindOf(calls[i].name)]

\* The kernel calls of a whole run, in order.
ExpectedKinds ==
    IF FixedQGiven THEN <<"photoelastic", "moving_boundary">>
    ELSE <<"loss", "photoelastic", "moving_boundary">>

\* C14: in a run without interruption the kernel calls made so far are the
\* first calls of: loss, photoelastic, moving boundary, each once, without
\* the loss call when a fixed Q was given; the first call comes after the
\* re-indexing and the material mask; the assembly starts after the
\* moving-boundary call has returned, with all the calls made.
C14_CallSequence ==
    interrupted = {} =>
        /\ Len(calls) <= Len(ExpectedKinds)
        /\ CallKinds = SubSeq(ExpectedKinds, 1, Len(calls))
        /\ calls # <<>> =>
              /\ Masked
              /\ ElementAxis(trimmed_EM_pump_field) = Range(inp.n_msh_el_AC)
              /\ ElementAxis(trimmed_EM_Stokes_field) = Range(inp.n_msh_el_AC)
              /\ Len(relevant_eps_effs) = Cardinality(RelevantTypes)
        /\ (pc \in {"assemble", "done"} \/ result # <<>>) =>
              /\ CallKinds = ExpectedKinds
              /\ {"Q_PE", "Q_MB"} \subseteq bound

\* A finished run without fixed Q on a curvilinear mesh: ac_alpha_int, then
\* photoelastic_int, then moving_boundary.
C14_Witness ==
    /\ pc = "done"
    /\ interrupted = {}
    /\ inp.inc_shape = "curvilinear"
    /\ Len(calls) = 3
    /\ calls[1].name = "ac_alpha_int"
    /\ calls[2].name = "photoelastic_int"
    /\ calls[3].name = "moving_boundary"

\* The call has ended, by a return or by an exception.
Ended == pc \in {"done", "error"}

\* C15 as amended: a KeyboardInterrupt during a kernel call is caught, but
\* the interrupted integral has no default value and no result is returned.
\* After an interrupted loss kernel the call fails at once with
\* UnboundLocalError and invokes no other kernel; after an interrupted
\* photoelastic or moving-boundary kernel the remaining kernel is still
\* invoked and the call then fails with UnboundLocalError at the assembly.
C15_InterruptFails ==
    interrupted # {} =>
        /\ pc # "done"
        /\ result = <<>>
        /\ pc = "error" => err = "UnboundLocalError"
        /\ interrupted \cap AlphaRoutines # {} =>
              (pc = "error" /\ Len(calls) = 1 /\ "alpha" \notin bound)
        /\ interrupted \cap AlphaRoutines = {} =>
              /\ pc \in {"mb", "assemble", "error"}
              /\ pc \in {"assemble", "error"} =>
                    (MBCalls # {} /\ ~({"Q_PE", "Q_MB"} \subseteq bound))

\* C15 as claimed: a call in which a kernel was interrupted still ends by
\* returning the five results.
C15_InterruptReturns ==
    (interrupted # {} /\ Ended) =>
        /\ pc = "done"
        /\ DOMAIN result =
              {"SBS_gain", "SBS_gain_PE", "SBS_gain_MB", "alpha", "Q_factors"}

\* The photoelastic kernel was interrupted, the moving-boundary kernel ran
\* to its end, and the call ended with UnboundLocalError and no result.
C15_Witness ==
    /\ pc = "error"
    /\ err = "UnboundLocalError"
    /\ interrupted = {PERoutine}
    /\ "Q_MB" \in bound
    /\ "Q_PE" \notin bound
    /\ MBCalls # {}
    /\ result = <<>>

\* The selectors have been encoded.
Encoded == pc \notin {"idle", "encode"}

\* The encoding the claim gives for one selector.
EncodedAs(sel, fortran) ==
    /\ fortran = -1 <=> sel = All
    /\ sel.kind = "int" => (fortran = sel.val + 1 /\ fortran # -1)

\* C16: each of the three selectors reaches the kernels as -1 exactly when
\* the caller passed 'All'; an integer selector i reaches them as i+1, which
\* is never -1.
C16_SelectorEncoding ==
    Encoded =>
        /\ EncodedAs(inp.EM_ival_pump, EM_ival_pump_fortran)
        /\ EncodedAs(inp.EM_ival_Stokes, EM_ival_Stokes_fortran)
        /\ EncodedAs(inp.AC_ival, AC_ival_fortran)
        /\ \A c \in 1 .. Len(calls) :
              calls[c].name \notin AlphaRoutines =>
                  /\ EncodedAs(inp.EM_ival_pump, calls[c].sel[1])
                  /\ EncodedAs(inp.EM_ival_Stokes, calls[c].sel[2])
                  /\ EncodedAs(inp.AC_ival, calls[c].sel[3])

\* AC_ival = -2 reaches the moving-boundary kernel as -1, the value that
\* asks for all the modes, and the call returns.
C16_SentinelFromInteger ==
    /\ pc = "done"
    /\ inp.AC_ival = Int_(-2)
    /\ inp.EM_ival_pump = Int_(0)
    /\ \E c \in MBCalls : calls[c].sel = <<1, 1, -1>>

=============================================================================
